---- MODULE Spec2Model ----
(***************************************************************************)
(* Model of backend/src/routes/music.ts: the POST /generate handler, the   *)
(* provider fallback chain (generateMusicFallback), the tone synthesizer   *)
(* (generateSimpleTone) and the WAV encoder (createWavFile).               *)
(*                                                                         *)
(* Buffers are sequences of bytes (0..255); byte offset o of the source is *)
(* index o + 1 of the sequence.  A call that may throw returns a record    *)
(* [threw, bytes].                                                         *)
(***************************************************************************)
EXTENDS Integers, Sequences, FiniteSets, TLC

\* ------------------------------------------------------------------ bounds
\* sampleRate is 44100 = 20 * 2205 in the source.  The model keeps the
\* factor 20 (so that sampleRate / notesPerSecond and sampleRate * 0.1 stay
\* whole numbers, as they are in the source) and bounds the other factor.
RateScale == 2
\* Math.sin is modelled in fixed point: values are in units of 1 / SinScale
SinScale == 50
\* and the phase is quantised to PhaseRes steps per half turn.
PhaseRes == 8
\* Longest prompt string drawn as a request input.
MaxPromptLen == 2

\* ------------------------------------------------------- program constants
sampleRate == 20 * RateScale
notesPerSecond == 2
MaxFallbackSeconds == 30
DefaultLengthMs == 30000
AmplitudeScale == 12000
HeaderLen == 44
\* scale, in hundredths of a hertz (261.63 Hz -> 26163)
scale == <<26163, 29366, 32963, 34923, 39200, 44000, 49388, 52325>>
models == <<"facebook/musicgen-small", "facebook/musicgen-medium", "audiocraft/musicgen-small">>

\* ------------------------------------------------------------ Math helpers
Min(a, b) == IF a <= b THEN a ELSE b
Abs(a) == IF a < 0 THEN -a ELSE a
\* Math.ceil(a / b) for b > 0
CeilDiv(a, b) == -((-a) \div b)

\* Math.sin(2 * PI * p / q) for 0 <= p < q, in units of 1 / SinScale.
\* The phase is quantised to 2 * PhaseRes steps per turn and the half wave is
\* Bhaskara's rational approximation 16k(R-k) / (5R^2 - 4k(R-k)).
Sin(p, q) ==
  LET h == (2 * PhaseRes * p) \div q
      k == h % PhaseRes
      mag == (SinScale * 16 * k * (PhaseRes - k))
               \div (5 * PhaseRes * PhaseRes - 4 * k * (PhaseRes - k))
  IN IF h < PhaseRes THEN mag ELSE -mag

\* --------------------------------------------------------- Buffer helpers
Ok(b) == [threw |-> FALSE, bytes |-> b]
Threw == [threw |-> TRUE, bytes |-> <<>>]

\* Buffer.alloc(size): zero filled
BufferAlloc(size) == [k \in 1..size |-> 0]

\* Buffer.allocUnsafe(size): throws on a negative size; otherwise the bytes
\* are whatever the pool held, here a pattern chosen by the seed g.
BufferAllocUnsafe(size, g) ==
  IF size < 0 THEN Threw
  ELSE Ok([k \in 1..size |-> (g + 7 * k) % 256])

\* buf.writeInt16LE(value, offset): range-checked, two's complement, low byte first
writeInt16LE(buf, value, offset) ==
  IF value < -32768 \/ value > 32767 \/ offset < 0 \/ offset + 2 > Len(buf)
  THEN Threw
  ELSE LET u == value % 65536
       IN Ok([buf EXCEPT ![offset + 1] = u % 256, ![offset + 2] = u \div 256])

writeUInt16LE(buf, value, offset) ==
  [buf EXCEPT ![offset + 1] = value % 256, ![offset + 2] = (value \div 256) % 256]

writeUInt32LE(buf, value, offset) ==
  [buf EXCEPT ![offset + 1] = value % 256,
              ![offset + 2] = (value \div 256) % 256,
              ![offset + 3] = (value \div 65536) % 256,
              ![offset + 4] = (value \div 16777216) % 256]

\* buf.write(str, offset) for a four-character ASCII tag
writeTag(buf, tag, offset) ==
  [buf EXCEPT ![offset + 1] = tag[1], ![offset + 2] = tag[2],
              ![offset + 3] = tag[3], ![offset + 4] = tag[4]]

readUInt32LE(buf, offset) ==
  buf[offset + 1] + 256 * buf[offset + 2] + 65536 * buf[offset + 3]
    + 16777216 * buf[offset + 4]

readInt16LE(buf, offset) ==
  LET u == buf[offset + 1] + 256 * buf[offset + 2]
  IN IF u >= 32768 THEN u - 65536 ELSE u

RIFF == <<82, 73, 70, 70>>
WAVE == <<87, 65, 86, 69>>
FMT == <<102, 109, 116, 32>>
DATA == <<100, 97, 116, 97>>

\* createWavFile with the RIFF size taken as the whole file's length
createWavFileTotalSize(audioData, rate) ==
  LET dataSize == Len(audioData)
      h0 == BufferAlloc(HeaderLen)
      h1 == writeTag(h0, RIFF, 0)
      h2 == writeUInt32LE(h1, HeaderLen + dataSize, 4)
      h3 == writeTag(h2, WAVE, 8)
      h4 == writeTag(h3, FMT, 12)
      h5 == writeUInt32LE(h4, 16, 16)
      h6 == writeUInt16LE(h5, 1, 20)
      h7 == writeUInt16LE(h6, 1, 22)
      h8 == writeUInt32LE(h7, rate, 24)
      h9 == writeUInt32LE(h8, rate * 2, 28)
      h10 == writeUInt16LE(h9, 2, 32)
      h11 == writeUInt16LE(h10, 16, 34)
      h12 == writeTag(h11, DATA, 36)
      wavHeader == writeUInt32LE(h12, dataSize, 40)
  IN wavHeader \o audioData

\* ------------------------------------------------------------ createWavFile
createWavFile(audioData, rate) ==
  LET numChannels == 1
      bitsPerSample == 16
      byteRate == (rate * numChannels * bitsPerSample) \div 8
      blockAlign == (numChannels * bitsPerSample) \div 8
      dataSize == Len(audioData)
      fileSize == 36 + dataSize
      h0 == BufferAlloc(HeaderLen)
      h1 == writeTag(h0, RIFF, 0)
      h2 == writeUInt32LE(h1, fileSize, 4)
      h3 == writeTag(h2, WAVE, 8)
      h4 == writeTag(h3, FMT, 12)
      h5 == writeUInt32LE(h4, 16, 16)
      h6 == writeUInt16LE(h5, 1, 20)
      h7 == writeUInt16LE(h6, numChannels, 22)
      h8 == writeUInt32LE(h7, rate, 24)
      h9 == writeUInt32LE(h8, byteRate, 28)
      h10 == writeUInt16LE(h9, blockAlign, 32)
      h11 == writeUInt16LE(h10, bitsPerSample, 34)
      h12 == writeTag(h11, DATA, 36)
      wavHeader == writeUInt32LE(h12, dataSize, 40)
  IN wavHeader \o audioData

\* ------------------------------------------------------- generateSimpleTone
numSamples(durationSeconds) == sampleRate * durationSeconds
samplesPerNote == sampleRate \div notesPerSecond
\* totalNotes without the notes per second
totalNotesPerSecond(durationSeconds) == CeilDiv(durationSeconds, 1)
totalNotes(durationSeconds) == CeilDiv(durationSeconds * notesPerSecond, 1)

noteIndex(i, durationSeconds) == (i \div samplesPerNote) % totalNotes(durationSeconds)
scaleIndex(i, durationSeconds) == noteIndex(i, durationSeconds) % Len(scale)
\* scale[scaleIndex]; the source's array is 0-based
frequency(i, durationSeconds) == scale[scaleIndex(i, durationSeconds) + 1]

\* sample1 = sin(2 PI baseFreq t), t = i / sampleRate, in units of 1 / SinScale
sample1(i, durationSeconds) ==
  LET q == 100 * sampleRate
  IN Sin((frequency(i, durationSeconds) * i) % q, q)
\* sin(2 PI harmonyFreq t) with harmonyFreq = frequency * 0.5, before the * 0.5
harmony(i, durationSeconds) ==
  LET q == 200 * sampleRate
  IN Sin((frequency(i, durationSeconds) * i) % q, q)
\* sample = (sample1 + sample2) / 1.5 with sample2 = harmony * 0.5, as the
\* fraction sampleNum / sampleDen
sampleNum(i, durationSeconds) == 2 * sample1(i, durationSeconds) + harmony(i, durationSeconds)
sampleDen == 3 * SinScale

\* 0.1 of a note and sampleRate * 0.1, in samples (whole numbers, see RateScale)
rampSamples == samplesPerNote \div 10
fadeSamples == sampleRate \div 10

\* envelope as the fraction envelopeNum / rampSamples;
\* notePosition = (i % samplesPerNote) / samplesPerNote, so notePosition / 0.1
\* is (i % samplesPerNote) / rampSamples
envelopeNum(i) ==
  LET k == i % samplesPerNote
  IN IF 10 * k < samplesPerNote THEN k
     ELSE IF 10 * k > 9 * samplesPerNote THEN samplesPerNote - k
     ELSE rampSamples

\* globalEnvelope as the fraction globalEnvelopeNum / fadeSamples
globalEnvelopeNum(i, durationSeconds) ==
  Min(fadeSamples, Min(i, numSamples(durationSeconds) - i))

\* amplitude scaled to the full 16-bit range instead of 12000
amplitudeFullScale(i, durationSeconds) ==
  (sampleNum(i, durationSeconds) * envelopeNum(i)
      * globalEnvelopeNum(i, durationSeconds) * 32767)
    \div (sampleDen * rampSamples * fadeSamples)

\* Math.floor(sample * envelope * globalEnvelope * 12000)
amplitude(i, durationSeconds) ==
  (sampleNum(i, durationSeconds) * envelopeNum(i)
      * globalEnvelopeNum(i, durationSeconds) * AmplitudeScale)
    \div (sampleDen * rampSamples * fadeSamples)

\* one iteration of the for loop: the write of sample i
ToneStep(buffer, i, durationSeconds) ==
  writeInt16LE(buffer, amplitude(i, durationSeconds), i * 2)

\* the iterations lo <= i < hi of the for loop, in order; a throwing write
\* ends the loop.  (The range is halved only to keep the evaluation shallow.)
RECURSIVE ToneLoop(_, _, _, _)
ToneLoop(buffer, lo, hi, durationSeconds) ==
  IF lo >= hi THEN Ok(buffer)
  ELSE IF hi = lo + 1 THEN ToneStep(buffer, lo, durationSeconds)
  ELSE LET mid == (lo + hi) \div 2
           left == ToneLoop(buffer, lo, mid, durationSeconds)
       IN IF left.threw THEN Threw
          ELSE ToneLoop(left.bytes, mid, hi, durationSeconds)

\* generateSimpleTone with the loop stopping one sample early
generateSimpleToneShort(durationSeconds, g) ==
  LET a == BufferAllocUnsafe(numSamples(durationSeconds) * 2, g)
  IN IF a.threw THEN Threw
     ELSE LET r == ToneLoop(a.bytes, 0, numSamples(durationSeconds) - 1, durationSeconds)
          IN IF r.threw THEN Threw
             ELSE Ok(createWavFile(r.bytes, sampleRate))

\* generateSimpleTone(durationSeconds), the allocation returning garbage g
generateSimpleTone(durationSeconds, g) ==
  LET a == BufferAllocUnsafe(numSamples(durationSeconds) * 2, g)
  IN IF a.threw THEN Threw
     ELSE LET r == ToneLoop(a.bytes, 0, numSamples(durationSeconds), durationSeconds)
          IN IF r.threw THEN Threw
             ELSE Ok(createWavFile(r.bytes, sampleRate))

\* generateSimpleTone tabulated over the durations the fallback can pass on
\* and the garbage seeds, so that each tone is evaluated once
ToneSeeds == {0, 91}
toneTable ==
  [d \in 0..MaxFallbackSeconds, g \in ToneSeeds |-> generateSimpleTone(d, g)]
SimpleTone(durationSeconds, g) ==
  IF durationSeconds \in 0..MaxFallbackSeconds /\ g \in ToneSeeds
  THEN toneTable[durationSeconds, g]
  ELSE generateSimpleTone(durationSeconds, g)

\* ------------------------------------------------------------- JS values
\* A value of the JSON request body: [type, str, num]
JsUndefined == [type |-> "undefined", str |-> <<>>, num |-> 0]
JsNull == [type |-> "object", str |-> <<"null">>, num |-> 0]
JsArray == [type |-> "object", str |-> <<"array">>, num |-> 0]
JsNum(n) == [type |-> "number", str |-> <<>>, num |-> n]
JsStr(s) == [type |-> "string", str |-> s, num |-> 0]

\* ToBoolean(v): undefined, null, 0 and "" are falsy
Truthy(v) ==
  CASE v.type = "undefined" -> FALSE
    [] v.type = "object" -> v # JsNull
    [] v.type = "number" -> v.num # 0
    [] v.type = "string" -> Len(v.str) > 0

\* String.prototype.trim on a sequence of characters
RECURSIVE TrimStart(_)
TrimStart(s) == IF Len(s) > 0 /\ Head(s) = " " THEN TrimStart(Tail(s)) ELSE s
RECURSIVE TrimEnd(_)
TrimEnd(s) ==
  IF Len(s) > 0 /\ s[Len(s)] = " " THEN TrimEnd(SubSeq(s, 1, Len(s) - 1)) ELSE s
Trim(s) == TrimEnd(TrimStart(s))

\* the guard without the trim
PromptRejectedNoTrim(prompt) ==
  \/ ~Truthy(prompt)
  \/ prompt.type # "string"
  \/ Len(prompt.str) = 0

\* the guard of the 400 response
PromptRejected(prompt) ==
  \/ ~Truthy(prompt)
  \/ prompt.type # "string"
  \/ Len(Trim(prompt.str)) = 0

\* Math.floor((musicLengthMs || 30000) / 1000)
durationSecondsOf(musicLengthMs) ==
  (IF Truthy(musicLengthMs) THEN musicLengthMs.num ELSE DefaultLengthMs) \div 1000

\* the handler's duration without the Math.min
unclampedSeconds(musicLengthMs) == durationSecondsOf(musicLengthMs)

\* Math.min(durationSeconds, 30) of the handler's two catch blocks
clampedSeconds(musicLengthMs) ==
  Min(durationSecondsOf(musicLengthMs), MaxFallbackSeconds)

\* ------------------------------------------------------------------ inputs
Chars == {" ", "a"}
Strings == UNION {[1..n -> Chars] : n \in 0..MaxPromptLen}
PromptValues == {JsUndefined, JsNull, JsArray, JsNum(0), JsNum(5)} \cup {JsStr(s) : s \in Strings}
LengthValues ==
  {JsUndefined} \cup {JsNum(n) : n \in {-1000, 0, 500, 1000, 2500, 30000, 31000, 600000}}
\* what the primary provider resolves with, and what secondary model m answers
PrimaryPayloads == {<<73, 68, 51>>, <<255, 251, 144>>}
SecondaryPayload(m) == <<102, 76, 97, 67, m>>
SecondaryData == {<<>>} \cup {SecondaryPayload(m) : m \in 1..Len(models)}
\* seeds of the contents of an uninitialised allocation
GarbageSeeds == ToneSeeds

\* ------------------------------------------------------------------- state
VARIABLES
  pc,              \* where the handler is: idle, primary, secondary, done
  prompt,          \* req.body.prompt
  musicLengthMs,   \* req.body.musicLengthMs
  fallbackSeconds, \* the durationSeconds argument of generateMusicFallback
  modelIdx,        \* position of the for loop over models (1-based), 0 outside
  calls,           \* the provider calls of this request, in order
  musicBuffer,
  usedFallback,
  res,             \* the response sent
  thrown,          \* error.message of what the outer catch caught
  tpc,             \* synthesizer harness: start, first, second
  tDuration,       \* its durationSeconds
  tSeeds,          \* garbage seed of each of its calls
  tFirst,          \* result of its first call
  tSecond,         \* result of its second call
  loadPending,     \* VoiceModeProvider: AsyncStorage.getItem of the mount effect in flight
  storage,         \* value stored under STORAGE_KEY: "null", "true" or "false"
  isLoading,       \* React state of VoiceModeProvider
  isVoiceModeEnabled,
  isWakeWordActive,
  rendered,        \* the state values the functions of the last render close over
  toggles,         \* toggleVoiceMode calls awaiting AsyncStorage.setItem, oldest first
  started,         \* number of toggleVoiceMode calls so far
  spoken,          \* the Speech.speak calls, in order
  finished         \* the toggleVoiceMode call that completed last

vars == <<pc, prompt, musicLengthMs, fallbackSeconds, modelIdx, calls,
          musicBuffer, usedFallback, res, thrown, tpc, tDuration, tSeeds, tFirst, tSecond,
          loadPending, storage, isLoading, isVoiceModeEnabled, isWakeWordActive,
          rendered, toggles, started, spoken, finished>>
handlerVars == <<pc, prompt, musicLengthMs, fallbackSeconds, modelIdx, calls,
                 musicBuffer, usedFallback, res, thrown>>
toneVars == <<tpc, tDuration, tSeeds, tFirst, tSecond>>
voiceVars == <<loadPending, storage, isLoading, isVoiceModeEnabled, isWakeWordActive,
               rendered, toggles, started, spoken, finished>>

\* ------------------------------------------------------- error messages
\* Strings are sequences of characters.
ApiKey ==
  <<"A", "P", "I", " ", "k", "e", "y">>
PaymentRequired ==
  <<"P", "a", "y", "m", "e", "n", "t", " ", "R", "e", "q", "u", "i", "r",
    "e", "d">>
PaidSubscription ==
  <<"p", "a", "i", "d", " ", "s", "u", "b", "s", "c", "r", "i", "p", "t",
    "i", "o", "n">>
UpgradeYourPlan ==
  <<"u", "p", "g", "r", "a", "d", "e", " ", "y", "o", "u", "r", " ", "p",
    "l", "a", "n">>
RateLimit ==
  <<"r", "a", "t", "e", " ", "l", "i", "m", "i", "t">>
NotAvailable ==
  <<"n", "o", "t", " ", "a", "v", "a", "i", "l", "a", "b", "l", "e">>
EndpointNotFound ==
  <<"e", "n", "d", "p", "o", "i", "n", "t", " ", "n", "o", "t", " ", "f",
    "o", "u", "n", "d">>
DefaultErrorMessage ==
  <<"A", "n", " ", "e", "r", "r", "o", "r", " ", "o", "c", "c", "u", "r",
    "r", "e", "d", " ", "w", "h", "i", "l", "e", " ", "g", "e", "n", "e",
    "r", "a", "t", "i", "n", "g", " ", "m", "u", "s", "i", "c">>
PromptHelp ==
  <<"P", "l", "e", "a", "s", "e", " ", "p", "r", "o", "v", "i", "d", "e",
    " ", "a", " ", "t", "e", "x", "t", " ", "p", "r", "o", "m", "p", "t",
    " ", "d", "e", "s", "c", "r", "i", "b", "i", "n", "g", " ", "t", "h",
    "e", " ", "m", "u", "s", "i", "c", " ", "y", "o", "u", " ", "w", "a",
    "n", "t", " ", "t", "o", " ", "g", "e", "n", "e", "r", "a", "t", "e">>
\* message of the RangeError thrown by Buffer.allocUnsafe(size) for size < 0
\* (the allowed range and the received value follow)
RangeErrorMessage ==
  <<"T", "h", "e", " ", "v", "a", "l", "u", "e", " ", "o", "f", " ", "\"",
    "s", "i", "z", "e", "\"", " ", "i", "s", " ", "o", "u", "t", " ", "o",
    "f", " ", "r", "a", "n", "g", "e", ".">>

\* String.prototype.includes
Includes(s, sub) ==
  \E k \in 1..(Len(s) - Len(sub) + 1) : SubSeq(s, k, k + Len(sub) - 1) = sub
\* error.message?.includes(phrase): undefined when there is no message
MessageIncludes(message, phrase) ==
  message.type = "string" /\ Includes(message.str, phrase)

\* the if / else if chain over statusCode, rate limit tested before billing
statusCodeRateFirst(message) ==
  IF MessageIncludes(message, ApiKey) THEN 401
  ELSE IF MessageIncludes(message, RateLimit) THEN 429
  ELSE IF \/ MessageIncludes(message, PaymentRequired)
          \/ MessageIncludes(message, PaidSubscription)
          \/ MessageIncludes(message, UpgradeYourPlan) THEN 402
  ELSE IF \/ MessageIncludes(message, NotAvailable)
          \/ MessageIncludes(message, EndpointNotFound) THEN 404
  ELSE 500

\* the if / else if chain over statusCode
statusCodeFor(message) ==
  IF MessageIncludes(message, ApiKey) THEN 401
  ELSE IF \/ MessageIncludes(message, PaymentRequired)
          \/ MessageIncludes(message, PaidSubscription)
          \/ MessageIncludes(message, UpgradeYourPlan) THEN 402
  ELSE IF MessageIncludes(message, RateLimit) THEN 429
  ELSE IF \/ MessageIncludes(message, NotAvailable)
          \/ MessageIncludes(message, EndpointNotFound) THEN 404
  ELSE 500

\* errorMessage = error.message || 'An error occurred while generating music'
errorMessageFor(message) ==
  IF Truthy(message) THEN message.str ELSE DefaultErrorMessage

NoResponse ==
  [sent |-> FALSE, status |-> 0, contentType |-> "", extension |-> "",
   source |-> "", contentLength |-> 0, body |-> <<>>, error |-> "",
   message |-> <<>>]

\* res.status(400).json({error: 'Prompt is required', ...})
BadRequest ==
  [NoResponse EXCEPT !.sent = TRUE, !.status = 400,
                     !.contentType = "application/json",
                     !.error = "Prompt is required",
                     !.message = PromptHelp]

\* the outer catch: res.status(statusCode).json({error: 'Failed to generate music', ...})
ErrorResponseFor(message) ==
  [NoResponse EXCEPT !.sent = TRUE, !.status = statusCodeFor(message),
                     !.contentType = "application/json",
                     !.error = "Failed to generate music",
                     !.message = errorMessageFor(message)]

\* The only error that gets to the outer catch from inside the handler is
\* the RangeError of Buffer.allocUnsafe.
ErrorResponse == ErrorResponseFor(JsStr(RangeErrorMessage))

\* the headers with the provider's type whatever the source
SendAudioMpeg(buf, fallback) ==
  [sent |-> TRUE, status |-> 200,
   contentType |-> "audio/mpeg", extension |-> "mp3",
   source |-> IF fallback THEN "fallback" ELSE "",
   contentLength |-> Len(buf), body |-> buf, error |-> "", message |-> <<>>]

\* the headers without the X-Music-Source marker
SendAudioNoMarker(buf, fallback) ==
  [sent |-> TRUE, status |-> 200,
   contentType |-> IF fallback THEN "audio/wav" ELSE "audio/mpeg",
   extension |-> IF fallback THEN "wav" ELSE "mp3",
   source |-> "",
   contentLength |-> Len(buf), body |-> buf, error |-> "", message |-> <<>>]

\* the headers and res.send(musicBuffer)
SendAudio(buf, fallback) ==
  [sent |-> TRUE, status |-> 200,
   contentType |-> IF fallback THEN "audio/wav" ELSE "audio/mpeg",
   extension |-> IF fallback THEN "wav" ELSE "mp3",
   source |-> IF fallback THEN "fallback" ELSE "",
   contentLength |-> Len(buf), body |-> buf, error |-> "", message |-> <<>>]

\* one entry of the call log
Call(tier, model, lengthMs, duration, outcome) ==
  [tier |-> tier, model |-> model, lengthMs |-> lengthMs,
   duration |-> duration, outcome |-> outcome]
Settle(log, outcome) == [log EXCEPT ![Len(log)].outcome = outcome]

\* axios.post for models[m] with parameters.duration = Math.min(durationSeconds, 30)
SecondaryCall(m, durationSeconds) ==
  Call("secondary", m, JsUndefined, Min(durationSeconds, MaxFallbackSeconds), "pending")

HandlerInit ==
  /\ pc = "idle"
  /\ prompt = JsUndefined
  /\ musicLengthMs = JsUndefined
  /\ fallbackSeconds = 0
  /\ modelIdx = 0
  /\ calls = <<>>
  /\ musicBuffer = <<>>
  /\ usedFallback = FALSE
  /\ res = NoResponse
  /\ thrown = JsUndefined

ToneIdle ==
  /\ tpc = "off"
  /\ tDuration = 0
  /\ tSeeds = <<>>
  /\ tFirst = Threw
  /\ tSecond = Threw

\* VoiceModeProvider not mounted
NoToggle == [done |-> FALSE, newValue |-> FALSE, saved |-> FALSE]
VoiceState ==
  /\ isLoading = TRUE
  /\ isVoiceModeEnabled = FALSE
  /\ isWakeWordActive = FALSE
  /\ rendered = [isLoading |-> TRUE, isVoiceModeEnabled |-> FALSE]
  /\ toggles = <<>>
  /\ started = 0
  /\ spoken = <<>>
  /\ finished = NoToggle
VoiceIdle ==
  /\ loadPending = FALSE
  /\ storage = "null"
  /\ VoiceState

Init == HandlerInit /\ ToneIdle /\ VoiceIdle

\* ----------------------------------------------------------------- handler
\* router.post('/generate'): destructuring, validation, and the call of the
\* primary provider with musicLengthMs as received
Receive(p, ms) ==
  /\ pc = "idle"
  /\ prompt' = p
  /\ musicLengthMs' = ms
  /\ IF PromptRejected(p)
     THEN /\ res' = BadRequest
          /\ pc' = "done"
          /\ UNCHANGED calls
     ELSE /\ calls' = <<Call("primary", 0, ms, 0, "pending")>>
          /\ pc' = "primary"
          /\ UNCHANGED res
  /\ UNCHANGED <<fallbackSeconds, modelIdx, musicBuffer, usedFallback, thrown, toneVars, voiceVars>>

\* elevenLabsService.generateMusic resolves: headers and res.send
PrimaryResolve(payload) ==
  /\ pc = "primary"
  /\ calls' = Settle(calls, "ok")
  /\ musicBuffer' = payload
  /\ usedFallback' = FALSE
  /\ res' = SendAudio(payload, FALSE)
  /\ pc' = "done"
  /\ UNCHANGED <<prompt, musicLengthMs, fallbackSeconds, modelIdx, thrown, toneVars, voiceVars>>

\* elevenLabsService.generateMusic rejects: generateMusicFallback is called
\* with Math.min(durationSeconds, 30) and posts to the first model
PrimaryReject ==
  /\ pc = "primary"
  /\ LET durationSeconds == clampedSeconds(musicLengthMs)
     IN /\ fallbackSeconds' = durationSeconds
        /\ calls' = Append(Settle(calls, "throw"), SecondaryCall(1, durationSeconds))
  /\ modelIdx' = 1
  /\ pc' = "secondary"
  /\ UNCHANGED <<prompt, musicLengthMs, musicBuffer, usedFallback, res, thrown, toneVars, voiceVars>>

\* generateMusicFallback returned buf to the handler: usedFallback, headers, send
FallbackReturned(buf, log) ==
  /\ calls' = log
  /\ musicBuffer' = buf
  /\ usedFallback' = TRUE
  /\ res' = SendAudio(buf, TRUE)
  /\ pc' = "done"
  /\ modelIdx' = 0
  /\ UNCHANGED thrown

\* the models are exhausted: generateSimpleTone in the try of
\* generateMusicFallback, again in its catch, again in the handler's catch,
\* and the handler's outer catch when that throws as well
LocalSynthesis(log, g) ==
  LET local(o) == Call("local", 0, JsUndefined, fallbackSeconds, o)
      handlerSeconds == clampedSeconds(musicLengthMs)
      t1 == SimpleTone(fallbackSeconds, g)
      t2 == SimpleTone(fallbackSeconds, g)
      t3 == SimpleTone(handlerSeconds, g)
      log1 == Append(log, local("throw"))
      log2 == Append(log1, local("throw"))
  IN IF ~t1.threw THEN FallbackReturned(t1.bytes, Append(log, local("ok")))
     ELSE IF ~t2.threw THEN FallbackReturned(t2.bytes, Append(log1, local("ok")))
     ELSE IF ~t3.threw
       THEN FallbackReturned(t3.bytes,
              Append(log2, Call("local", 0, JsUndefined, handlerSeconds, "ok")))
     ELSE /\ calls' = Append(log2, Call("local", 0, JsUndefined, handlerSeconds, "throw"))
          /\ thrown' = JsStr(RangeErrorMessage)
          /\ res' = ErrorResponse
          /\ pc' = "done"
          /\ modelIdx' = 0
          /\ UNCHANGED <<musicBuffer, usedFallback>>

\* the loop posting to the same model once more before moving on
NextModelRetry(log, g) ==
  IF modelIdx < Len(models)
  THEN /\ calls' = Append(log, SecondaryCall(modelIdx, fallbackSeconds))
       /\ modelIdx' = modelIdx + 1
       /\ UNCHANGED <<pc, musicBuffer, usedFallback, res, thrown>>
  ELSE LocalSynthesis(log, g)

\* the for loop moves on after models[modelIdx] failed or answered nothing
NextModel(log, g) ==
  IF modelIdx < Len(models)
  THEN /\ calls' = Append(log, SecondaryCall(modelIdx + 1, fallbackSeconds))
       /\ modelIdx' = modelIdx + 1
       /\ UNCHANGED <<pc, musicBuffer, usedFallback, res, thrown>>
  ELSE LocalSynthesis(log, g)

\* a resolved post that does not return from the loop
SecondaryResolveNoReturn(data, g) ==
  /\ pc = "secondary"
  /\ data \in {<<>>, SecondaryPayload(modelIdx)}
  /\ NextModel(Settle(calls, IF Len(data) > 0 THEN "ok" ELSE "empty"), g)
  /\ UNCHANGED <<prompt, musicLengthMs, fallbackSeconds, toneVars, voiceVars>>

\* axios.post resolves with response.data = data
SecondaryResolve(data, g) ==
  /\ pc = "secondary"
  /\ data \in {<<>>, SecondaryPayload(modelIdx)}
  /\ IF Len(data) > 0
     THEN FallbackReturned(data, Settle(calls, "ok"))
     ELSE NextModel(Settle(calls, "empty"), g)
  /\ UNCHANGED <<prompt, musicLengthMs, fallbackSeconds, toneVars, voiceVars>>

\* axios.post rejects (network error, HTTP error, timeout)
SecondaryReject(g) ==
  /\ pc = "secondary"
  /\ NextModel(Settle(calls, "throw"), g)
  /\ UNCHANGED <<prompt, musicLengthMs, fallbackSeconds, toneVars, voiceVars>>

Next ==
  \/ \E p \in PromptValues, ms \in LengthValues : Receive(p, ms)
  \/ \E payload \in PrimaryPayloads : PrimaryResolve(payload)
  \/ PrimaryReject
  \/ \E data \in SecondaryData, g \in GarbageSeeds : SecondaryResolve(data, g)
  \/ \E g \in GarbageSeeds : SecondaryReject(g)

Spec == Init /\ [][Next]_vars

\* ---------------------------------------------------- synthesizer harness
\* Two calls of generateSimpleTone with the same durationSeconds, each on an
\* allocation with its own garbage.
ToneDurations == (-1)..MaxFallbackSeconds

InitTone ==
  /\ HandlerInit
  /\ tpc = "start"
  /\ tDuration \in ToneDurations
  /\ tSeeds = <<>>
  /\ tFirst = Threw
  /\ tSecond = Threw
  /\ VoiceIdle

SynthesizeFirst(g) ==
  /\ tpc = "start"
  /\ tFirst' = generateSimpleTone(tDuration, g)
  /\ tSeeds' = <<g>>
  /\ tpc' = "first"
  /\ UNCHANGED <<tDuration, tSecond, handlerVars, voiceVars>>

SynthesizeSecond(g) ==
  /\ tpc = "first"
  /\ tSecond' = generateSimpleTone(tDuration, g)
  /\ tSeeds' = Append(tSeeds, g)
  /\ tpc' = "second"
  /\ UNCHANGED <<tDuration, tFirst, handlerVars, voiceVars>>

NextTone ==
  \/ \E g \in GarbageSeeds : SynthesizeFirst(g)
  \/ \E g \in GarbageSeeds : SynthesizeSecond(g)

SpecTone == InitTone /\ [][NextTone]_vars

\* ---------------------------------------------------- outer catch harness
\* The outer catch of the handler applied to an error whose message is drawn
\* from concatenations of the tested phrases and other text.
MaxFragments == 2
Fragments ==
  {ApiKey, PaymentRequired, PaidSubscription, UpgradeYourPlan, RateLimit,
   NotAvailable, EndpointNotFound,
   <<"A", "P", "I", " ">>, <<"k", "e", "y", "s">>, <<"R", "a", "t", "e">>,
   <<" ", "l", "i", "m", "i", "t">>}
RECURSIVE Concatenations(_)
Concatenations(n) ==
  IF n = 0 THEN {<<>>}
  ELSE LET shorter == Concatenations(n - 1)
       IN shorter \cup {m \o f : m \in shorter, f \in Fragments}
ErrorMessages == {JsUndefined} \cup {JsStr(m) : m \in Concatenations(MaxFragments)}

\* something in the handler throws an error with this message
Throw(message) ==
  /\ pc = "idle"
  /\ thrown' = message
  /\ pc' = "catch"
  /\ UNCHANGED <<prompt, musicLengthMs, fallbackSeconds, modelIdx, calls,
                 musicBuffer, usedFallback, res, toneVars, voiceVars>>

\* catch (error): statusCode, errorMessage and the JSON response
OuterCatch ==
  /\ pc = "catch"
  /\ res' = ErrorResponseFor(thrown)
  /\ pc' = "done"
  /\ UNCHANGED <<prompt, musicLengthMs, fallbackSeconds, modelIdx, calls,
                 musicBuffer, usedFallback, thrown, toneVars, voiceVars>>

NextError ==
  \/ \E message \in ErrorMessages : Throw(message)
  \/ OuterCatch

SpecError == Init /\ [][NextError]_vars

\* ------------------------------------------------------- VoiceModeProvider
\* toggleVoiceMode calls in one run
MaxToggles == 3

EnabledText == "Voice mode enabled. Say \"Hey Companion\" to activate commands."
DisabledText == "Voice mode disabled."

\* VOICE_MODE_CONFIG[mode], rate and pitch in hundredths
VoiceModeConfig(mode) ==
  CASE mode = "navigation" -> [rate |-> 85, pitch |-> 100, volume |-> 100, sentiment |-> "calm"]
    [] mode = "art" -> [rate |-> 75, pitch |-> 110, volume |-> 100, sentiment |-> "warm"]
    [] mode = "music" -> [rate |-> 70, pitch |-> 115, volume |-> 100, sentiment |-> "expressive"]
    [] mode = "error" -> [rate |-> 80, pitch |-> 90, volume |-> 100, sentiment |-> "apologetic"]
    [] mode = "default" -> [rate |-> 90, pitch |-> 100, volume |-> 100, sentiment |-> "warm"]

\* the switch over finalSentiment
SentimentVoice(sentiment, config) ==
  CASE sentiment = "apologetic" -> [rate |-> 75, pitch |-> 85]
    [] sentiment = "firm" -> [rate |-> 90, pitch |-> 95]
    [] sentiment = "expressive" -> [rate |-> 70, pitch |-> 120]
    [] sentiment = "warm" -> [rate |-> 80, pitch |-> 110]
    [] sentiment = "calm" -> [rate |-> 85, pitch |-> 100]
    [] OTHER -> [rate |-> config.rate, pitch |-> config.pitch]

\* speak(text, mode, sentiment) of a render whose isVoiceModeEnabled is
\* enabled: the Speech.speak calls after it
speak(log, enabled, text, mode, sentiment) ==
  IF ~enabled /\ mode # "error" THEN log
  ELSE LET config == VoiceModeConfig(mode)
           voice == SentimentVoice(sentiment, config)
       IN Append(log, [text |-> text, language |-> "en", pitch |-> voice.pitch,
                       rate |-> voice.rate, volume |-> config.volume])

\* startWakeWordDetection() of a render whose isVoiceModeEnabled is enabled:
\* the value of isWakeWordActive after it
startWakeWordDetection(active, enabled) ==
  IF ~enabled THEN active ELSE TRUE

\* stopWakeWordDetection()
stopWakeWordDetection(active) == FALSE

\* the component mounts: useState initial values and the effect's getItem
InitVoice ==
  /\ HandlerInit
  /\ ToneIdle
  /\ loadPending = TRUE
  /\ storage \in {"null", "true", "false"}
  /\ VoiceState

\* AsyncStorage.getItem resolves
LoadResolve ==
  /\ loadPending
  /\ loadPending' = FALSE
  /\ isVoiceModeEnabled' = (storage = "true")
  /\ isLoading' = FALSE
  /\ UNCHANGED <<storage, isWakeWordActive, rendered, toggles, started, spoken,
                 finished, handlerVars, toneVars>>

\* AsyncStorage.getItem rejects
LoadReject ==
  /\ loadPending
  /\ loadPending' = FALSE
  /\ isLoading' = FALSE
  /\ UNCHANGED <<storage, isVoiceModeEnabled, isWakeWordActive, rendered, toggles,
                 started, spoken, finished, handlerVars, toneVars>>

\* React renders the provider again: the context value gets new functions
\* that close over the current state
Render ==
  /\ rendered # [isLoading |-> isLoading, isVoiceModeEnabled |-> isVoiceModeEnabled]
  /\ rendered' = [isLoading |-> isLoading, isVoiceModeEnabled |-> isVoiceModeEnabled]
  /\ UNCHANGED <<loadPending, storage, isLoading, isVoiceModeEnabled, isWakeWordActive,
                 toggles, started, spoken, finished, handlerVars, toneVars>>

\* a consumer calls toggleVoiceMode of the last render, up to the await.
\* (Children are rendered only once isLoading is false.)
ToggleStart ==
  /\ ~rendered.isLoading
  /\ started < MaxToggles
  /\ LET newValue == ~rendered.isVoiceModeEnabled
     IN /\ isVoiceModeEnabled' = newValue
        /\ toggles' = Append(toggles, [enabled |-> rendered.isVoiceModeEnabled,
                                       newValue |-> newValue])
  /\ started' = started + 1
  /\ UNCHANGED <<loadPending, storage, isLoading, isWakeWordActive, rendered,
                 spoken, finished, handlerVars, toneVars>>

\* AsyncStorage.setItem of the oldest call resolves: the rest of the try
\* block, with speak and startWakeWordDetection of the call's own render
ToggleSaved ==
  /\ toggles # <<>>
  /\ LET t == Head(toggles)
     IN /\ storage' = IF t.newValue THEN "true" ELSE "false"
        /\ IF t.newValue
           THEN /\ spoken' = speak(spoken, t.enabled, EnabledText, "default", "warm")
                /\ isWakeWordActive' = startWakeWordDetection(isWakeWordActive, t.enabled)
           ELSE /\ isWakeWordActive' = stopWakeWordDetection(isWakeWordActive)
                /\ spoken' = speak(spoken, t.enabled, DisabledText, "default", "calm")
        /\ finished' = [done |-> TRUE, newValue |-> t.newValue, saved |-> TRUE]
  /\ toggles' = Tail(toggles)
  /\ UNCHANGED <<loadPending, isLoading, isVoiceModeEnabled, rendered, started,
                 handlerVars, toneVars>>

\* AsyncStorage.setItem of the oldest call rejects: the catch logs the error
ToggleSaveFailed ==
  /\ toggles # <<>>
  /\ finished' = [done |-> TRUE, newValue |-> Head(toggles).newValue, saved |-> FALSE]
  /\ toggles' = Tail(toggles)
  /\ UNCHANGED <<loadPending, storage, isLoading, isVoiceModeEnabled, isWakeWordActive,
                 rendered, started, spoken, handlerVars, toneVars>>

NextVoice ==
  \/ LoadResolve
  \/ LoadReject
  \/ Render
  \/ ToggleStart
  \/ ToggleSaved
  \/ ToggleSaveFailed

SpecVoice == InitVoice /\ [][NextVoice]_vars

\* ================================================================= claims
LastCall == calls[Len(calls)]
\* the tier whose payload the response carries
ServedBy ==
  IF Len(calls) > 0 /\ LastCall.outcome = "ok" THEN LastCall.tier ELSE "none"
Failed(k) == calls[k].outcome \in {"throw", "empty"}
\* the primary and every secondary provider failed, threw or answered nothing
AllProvidersFailed ==
  /\ Len(calls) >= 1 + Len(models)
  /\ \A k \in 1..(1 + Len(models)) : Failed(k)
IsBlank(str) == \A k \in 1..Len(str) : str[k] = " "
ValidPrompt(p) == p.type = "string" /\ ~IsBlank(p.str)
IsWav(b) == Len(b) >= 44 /\ SubSeq(b, 1, 4) = RIFF /\ SubSeq(b, 9, 12) = WAVE

\* C1: with a valid prompt, when the primary and every secondary provider
\* fail, the response is a locally synthesized WAV and never an error.
C1_FullChainResilience ==
  (pc = "done" /\ ValidPrompt(prompt) /\ AllProvidersFailed)
    => /\ res.status = 200
       /\ ServedBy = "local"
       /\ IsWav(res.body)

\* C2: the call log of a request is the primary once and first, then the
\* secondaries in list order, each at most once and one at a time, then local
\* synthesis only after all of them failed; nothing follows a success.
C2_LinearOrder ==
  /\ (pc # "idle" /\ ValidPrompt(prompt)) => Len(calls) >= 1
  /\ \A k \in 1..Len(calls) :
       /\ (calls[k].tier = "primary") <=> (k = 1)
       /\ calls[k].tier = "secondary" =>
            /\ calls[k].model = k - 1
            /\ calls[k].model <= Len(models)
       /\ calls[k].tier = "local" => k > 1 + Len(models)
       /\ k < Len(calls) => Failed(k)
C2_Witness ==
  /\ pc = "done"
  /\ Len(calls) = 2 + Len(models)
  /\ ServedBy = "local"
  /\ calls[2].outcome = "empty"
  /\ calls[3].outcome = "throw"

C5_InvalidPromptRejected ==
  (pc # "idle" /\ ~ValidPrompt(prompt))
    => /\ pc = "done"
       /\ res.sent
       /\ res.status = 400
       /\ res.error # ""
       /\ calls = <<>>
C5_Witness ==
  /\ pc = "done"
  /\ prompt = JsStr(<<" ", " ">>)
  /\ res.status = 400
  /\ calls = <<>>

\* C6: every secondary and local call carries a duration of at most 30
\* seconds (exactly 30 for a missing musicLengthMs), and the primary call
\* carries musicLengthMs as received.
C6_FallbackDurationClamped ==
  \A k \in 1..Len(calls) :
    /\ calls[k].tier \in {"secondary", "local"} =>
         /\ calls[k].duration <= 30
         /\ musicLengthMs = JsUndefined => calls[k].duration = 30
    /\ calls[k].tier = "primary" => calls[k].lengthMs = musicLengthMs
C6_Witness ==
  /\ musicLengthMs = JsNum(600000)
  /\ Len(calls) = 2 + Len(models)
  /\ calls[1].lengthMs = JsNum(600000)
  /\ calls[4].duration = 30
  /\ LastCall.tier = "local"
  /\ LastCall.duration = 30

\* C7: the durationSeconds of every synthesizer call is a positive integer.
C7_PositiveDuration ==
  \A k \in 1..Len(calls) : calls[k].tier = "local" => calls[k].duration >= 1

\* the results the harness has so far
ToneResults ==
  (IF tpc \in {"first", "second"} THEN {tFirst} ELSE {})
    \cup (IF tpc = "second" THEN {tSecond} ELSE {})

\* C8: for durationSeconds in 1..30 the payload has sampleRate *
\* durationSeconds samples of 2 bytes after a 44-byte header, the size at
\* offset 40 is the payload's length, the size at offset 4 is 36 more, and
\* the output is 44 bytes longer than the payload.
C8_WavSizes ==
  \A r \in ToneResults :
    tDuration \in 1..30 =>
      /\ ~r.threw
      /\ LET out == r.bytes
             dataSize == readUInt32LE(out, 40)
         IN /\ SubSeq(out, 37, 40) = DATA
            /\ dataSize = 2 * (sampleRate * tDuration)
            /\ dataSize = Len(SubSeq(out, 45, Len(out)))
            /\ readUInt32LE(out, 4) = 36 + dataSize
            /\ Len(out) = 44 + dataSize
C8_Witness ==
  /\ tpc = "second"
  /\ tDuration = 30
  /\ ~tSecond.threw
  /\ readUInt32LE(tSecond.bytes, 40) = 60 * sampleRate

\* C9: for durationSeconds in 1..30 no write fails and every sample written
\* is within 12000 of zero; the mixed waveform is within [-1, 1] and both
\* envelopes are within [0, 1].
C9_AmplitudeBound ==
  \A r \in ToneResults :
    tDuration \in 1..30 =>
      /\ ~r.threw
      /\ \A i \in 0..(sampleRate * tDuration - 1) :
           /\ Abs(readInt16LE(r.bytes, 44 + 2 * i)) <= 12000
           /\ Abs(sampleNum(i, tDuration)) <= sampleDen
           /\ envelopeNum(i) \in 0..rampSamples
           /\ globalEnvelopeNum(i, tDuration) \in 0..fadeSamples
C9_Witness ==
  /\ tpc = "first"
  /\ tDuration = 30
  /\ ~tFirst.threw
  /\ \E i \in 0..(sampleRate * tDuration - 1) :
       Abs(readInt16LE(tFirst.bytes, 44 + 2 * i)) > 10000

\* C10: two calls with the same durationSeconds give the same bytes, whatever
\* the allocations held before.
C10_Deterministic ==
  tpc = "second" => tFirst = tSecond
C10_Witness ==
  /\ tpc = "second"
  /\ tDuration >= 1
  /\ tSeeds[1] # tSeeds[2]
  /\ ~tFirst.threw
  /\ tFirst = tSecond

\* C11: the error response has the status of the first matching test, in
\* the order API key (401), billing phrase (402), rate limit (429),
\* not available / endpoint not found (404), else 500, and its body is
\* {error, message}.
Has(phrase) == thrown.type = "string" /\ Includes(thrown.str, phrase)
HasBilling == Has(PaymentRequired) \/ Has(PaidSubscription) \/ Has(UpgradeYourPlan)
HasMissing == Has(NotAvailable) \/ Has(EndpointNotFound)
C11_StatusByFirstMatch ==
  (pc = "done" /\ res.status >= 401) =>
    /\ Has(ApiKey) => res.status = 401
    /\ (~Has(ApiKey) /\ HasBilling) => res.status = 402
    /\ (~Has(ApiKey) /\ ~HasBilling /\ Has(RateLimit)) => res.status = 429
    /\ (~Has(ApiKey) /\ ~HasBilling /\ ~Has(RateLimit) /\ HasMissing)
         => res.status = 404
    /\ (~Has(ApiKey) /\ ~HasBilling /\ ~Has(RateLimit) /\ ~HasMissing)
         => res.status = 500
    /\ res.contentType = "application/json"
    /\ res.error = "Failed to generate music"
    /\ Len(res.message) > 0
    /\ res.body = <<>>
C11_Witness ==
  /\ pc = "done"
  /\ thrown = JsStr(RateLimit \o UpgradeYourPlan)
  /\ res.status = 402
  /\ res.message = RateLimit \o UpgradeYourPlan

\* C12: a successful response carries X-Music-Source: fallback exactly when
\* its payload is not the primary provider's; a primary success sends the
\* primary's payload as it came, without the marker.
C12_MarkerIffFallback ==
  res.status = 200 =>
    /\ (res.source = "fallback") <=> (ServedBy \in {"secondary", "local"})
    /\ (res.source = "") <=> (ServedBy = "primary")
    /\ ServedBy = "primary" =>
         /\ res.body \in PrimaryPayloads
         /\ res.body = musicBuffer
         /\ res.contentLength = Len(musicBuffer)
         /\ ~usedFallback
C12_Witness ==
  /\ res.status = 200
  /\ ServedBy = "secondary"
  /\ res.source = "fallback"
  /\ res.body = SecondaryPayload(1)

\* C13: for durationSeconds in 1..30 and every sample index, the note index
\* is floor(i / samplesPerNote), below totalNotes = 2 * durationSeconds, so
\* the modulo leaves it alone, and the scale index is that number mod 8, a
\* valid index of the 8-pitch scale: note k plays scale degree k mod 8.
C13_AscendingScale ==
  (tpc \in {"first", "second"} /\ tDuration \in 1..30) =>
    /\ totalNotes(tDuration) = 2 * tDuration
    /\ Len(scale) = 8
    /\ \A i \in 0..(sampleRate * tDuration - 1) :
         LET k == i \div (sampleRate \div 2)
         IN /\ k < totalNotes(tDuration)
            /\ noteIndex(i, tDuration) = k
            /\ scaleIndex(i, tDuration) = k % 8
            /\ scaleIndex(i, tDuration) \in 0..7
            /\ frequency(i, tDuration) = scale[(k % 8) + 1]
C13_Witness ==
  /\ tpc = "first"
  /\ tDuration = 30
  /\ ~tFirst.threw
  /\ noteIndex(sampleRate * 30 - 1, 30) = 59
  /\ scaleIndex(sampleRate * 30 - 1, 30) = 3

\* C14: once a toggleVoiceMode call whose preference write succeeded has
\* completed and no other call is in flight, isVoiceModeEnabled and
\* isWakeWordActive both have the value the call switched to, and a call
\* that switched voice mode on has spoken the 'Voice mode enabled'
\* announcement.
C14_ToggleTakesEffect ==
  (finished.done /\ finished.saved /\ toggles = <<>>) =>
    /\ isVoiceModeEnabled = finished.newValue
    /\ isWakeWordActive = finished.newValue
    /\ isWakeWordActive = isVoiceModeEnabled
    /\ finished.newValue =>
         (spoken # <<>> /\ spoken[Len(spoken)].text = EnabledText)

====
